---------------------------- MODULE Spec2Model ----------------------------
(***************************************************************************)
(* Model of src/nameserver/master_slave.cc (MasterSlaveImpl): the leader's *)
(* write-ahead log sync.log, the two Log() entry points, the replication   *)
(* worker (BackgroundLog / ReplicateLog) and the follower's AppendLog      *)
(* handler.                                                                *)
(*                                                                         *)
(* Files are sequences of bytes.  Threads are the callers of Log() and the *)
(* worker thread.  mu_ is a variable: the worker and the appends take it   *)
(* in a step of their own and give it up in the step that ends the         *)
(* critical section; TimeWait's re-locking, the lines it guards and the    *)
(* unlock that follows are one step.  The reads the code makes without the *)
(* lock (lines 79, 86, 161) and the write of line 105 are steps of their   *)
(* own, which see whatever the other threads have written so far.          *)
(* Condition variables wake a waiting thread only when signalled or timed  *)
(* out.  Writes to sync.log complete unless the process dies in them.      *)
(*                                                                         *)
(* The progress thread (LogProgress) writes sync_offset_ to prog.tmp and   *)
(* renames it to prog.log; its write() may put down fewer than 4 bytes.    *)
(* A crash is the death of the leader process at any point, followed by    *)
(* the constructor and Init() on the files as they are; it may cut the     *)
(* record that LogLocal is writing.  SpecCrash has these steps, SpecTorn   *)
(* starts from a log with a record cut short, Spec has neither.            *)
(*                                                                         *)
(* assert() is compiled in or out by the build (NDEBUG): ndebug is chosen  *)
(* once, in Init, and a failing assert of a build that keeps it aborts the *)
(* process (aborted), after which no thread takes a step.                  *)
(*                                                                         *)
(* The RPC transport is outside the file: SendRequest is modelled as a     *)
(* blocking call that either delivers the request to the follower's        *)
(* AppendLog and returns its answer, delivers it and loses the answer, or  *)
(* does not deliver it at all.                                             *)
(***************************************************************************)
EXTENDS Integers, Sequences, FiniteSets, TLC

\* ------------------------------------------------------------------ bounds
NumCallers == 2         \* threads that call Log()
MaxAppends == 2         \* calls of Log() in one run
MaxPayloadLen == 1      \* longest entry passed to Log()
MaxAckLost == 1         \* RPCs the follower handled whose answer was lost
MaxInitRecords == 2     \* records found in sync.log by a restart
MaxCrashes == 1         \* crashes of the leader in one run

\* ----------------------------------------------------------------- threads
NoThread == 0 - 1
WorkerThread == 0
Callers == 1..NumCallers

VARIABLES
    ndebug,             \* the build drops assert()
    aborted,            \* an assert failed: the process is gone
    log_,               \* the bytes of the leader's sync.log
    current_offset_,
    sync_offset_,
    read_log_,          \* file position of the read handle read_log_
    master_only_,
    callbacks_,         \* std::map<int, callback>: offset -> id of the append
    mu_,                \* the thread that holds mu_, or NoThread
    start_offset,       \* the value Init() recovered from prog.log
    \* callers of Log()
    pc,                 \* where each caller is
    entry,              \* its argument entry
    id,                 \* the number of its call (names its callback)
    last_offset,        \* its local last_offset
    expired,            \* get_micros() has reached its stop_point
    ret,                \* what its call returned
    nlog,               \* calls of Log() made so far
    appended,           \* entries in the order LogLocal wrote them
    registered,         \* what line 114 was called with: [id, off, entry]
    \* the worker thread
    wpc,
    w_len,              \* local len of ReplicateLog
    w_entry,            \* local entry of ReplicateLog
    w_off,              \* file position the record in hand was read from
    w_callback,         \* local callback of ReplicateLog (0: none)
    fired,              \* the callbacks invoked, in order: [id, arg]
    \* the follower
    slave_log,          \* the bytes of the follower's sync.log
    applied,            \* the entries handed to log_callback_
    f_off,              \* for each AppendLog handled, the leader's offset of it
    acked,              \* leader offsets whose RPC returned true
    nlost,              \* answers lost so far
    \* the progress thread (LogProgress) and the files prog.log, prog.tmp
    prog_log,           \* the bytes of prog.log (empty: no such file)
    prog_tmp,           \* the bytes of prog.tmp (empty: no such file)
    lpc,                \* where the progress thread is
    lp_buf,             \* local buf of LogProgress
    lp_ret,             \* local ret of LogProgress
    lp_old,             \* the offset that Init() or the last rename left in prog.log
    ncrash              \* crashes of the leader so far

leader == <<ndebug, aborted, log_, current_offset_, sync_offset_, read_log_,
            master_only_, callbacks_, mu_, start_offset>>
callers == <<pc, entry, id, last_offset, expired, ret, nlog, appended,
            registered>>
worker == <<wpc, w_len, w_entry, w_off, w_callback, fired>>
slave == <<slave_log, applied, f_off, acked, nlost>>
logger == <<prog_log, prog_tmp, lpc, lp_buf, lp_ret, lp_old, ncrash>>
vars == <<leader, callers, worker, slave, logger>>

\* ------------------------------------------------------------ pure helpers
Min(a, b) == IF a < b THEN a ELSE b

\* memcpy(buf, &len, 4) on the little-endian build: four bytes, low first
Encode4(n) ==
    <<n % 256, (n \div 256) % 256, (n \div 65536) % 256, (n \div 16777216) % 256>>

\* memcpy(&len, buf, 4)
Decode4(b) == b[1] + 256 * b[2] + 65536 * b[3] + 16777216 * b[4]

\* read(fd, buf, n) at file position pos: the bytes that are there, at most n
ReadAt(file, pos, n) == SubSeq(file, pos + 1, Min(pos + n, Len(file)))

\* the two write() calls of LogLocal / AppendLog: header, then the entry
RecordBytes(e) == Encode4(Len(e)) \o e

\* LogLocal returning w, the 4 bytes of the length left out
LogLocalNoHeader(e) == Len(e)

\* the value LogLocal returns: w + 4, w the bytes of the entry written
LogLocal(e) == Len(e) + 4

\* the entry the n-th call of Log() passes, of length k
Payload(n, k) == [i \in 1..k |-> 16 * n + i]

\* the records of a file read from offset pos: 4-byte length, then payload;
\* reading stops at the first record that is not whole
RECURSIVE ReadRecords(_, _)
ReadRecords(file, pos) ==
    IF pos + 4 > Len(file) THEN <<>>
    ELSE LET n == Decode4(ReadAt(file, pos, 4))
         IN  IF pos + 4 + n > Len(file) THEN <<>>
             ELSE <<ReadAt(file, pos + 4, n)>> \o ReadRecords(file, pos + 4 + n)

\* the offsets at which the records of a file start, from offset pos
RECURSIVE RecordOffsets(_, _)
RecordOffsets(file, pos) ==
    IF pos + 4 > Len(file) THEN <<>>
    ELSE LET n == Decode4(ReadAt(file, pos, 4))
         IN  IF pos + 4 + n > Len(file) THEN <<>>
             ELSE <<pos>> \o RecordOffsets(file, pos + 4 + n)

RECURSIVE SumSizes(_)
SumSizes(es) == IF es = <<>> THEN 0 ELSE 4 + Len(Head(es)) + SumSizes(Tail(es))

RECURSIVE Concat(_)
Concat(es) == IF es = <<>> THEN <<>> ELSE RecordBytes(Head(es)) \o Concat(Tail(es))

\* std::map::insert: an existing key keeps its value
MapInsert(m, k, v) ==
    IF k \in DOMAIN m THEN m
    ELSE [x \in DOMAIN m \cup {k} |-> IF x = k THEN v ELSE m[x]]

\* std::map::erase
MapErase(m, k) == [x \in DOMAIN m \ {k} |-> m[x]]

EmptyMap == [x \in {} |-> 0]


\* ------------------------------------------------------------------- start
\* The constructor (lines 23-26) and Init() (lines 28-65) on a disk that holds
\* sync.log = file and prog.log = prog: sync_offset_ is read from prog.log,
\* current_offset_ is the end of sync.log, the read handle is positioned at
\* sync_offset_, and the worker thread is started.
Startup(file, prog) ==
    /\ aborted = FALSE
    /\ log_ = file
    /\ sync_offset_ = prog
    /\ start_offset = prog
    /\ current_offset_ = Len(file)
    /\ read_log_ = prog
    /\ master_only_ = FALSE
    /\ callbacks_ = EmptyMap
    /\ mu_ = NoThread
    /\ pc = [c \in Callers |-> "idle"]
    /\ entry = [c \in Callers |-> <<>>]
    /\ id = [c \in Callers |-> 0]
    /\ last_offset = [c \in Callers |-> 0]
    /\ expired = [c \in Callers |-> FALSE]
    /\ ret = [c \in Callers |-> FALSE]
    /\ nlog = 0
    /\ appended = <<>>
    /\ registered = {}
    /\ wpc = "bg_lock"
    /\ w_len = 0
    /\ w_entry = <<>>
    /\ w_off = 0
    /\ w_callback = 0
    /\ fired = <<>>
    /\ slave_log = <<>>
    /\ applied = <<>>
    /\ f_off = <<>>
    /\ acked = {}
    /\ nlost = 0
    /\ prog_tmp = <<>>
    /\ lpc = "lp_sleep"
    /\ lp_buf = <<>>
    /\ lp_ret = 0
    /\ lp_old = prog
    /\ ncrash = 0

\* a first start: no prog.log, an empty sync.log
Init ==
    /\ ndebug \in BOOLEAN
    /\ prog_log = <<>>
    /\ Startup(<<>>, 0)

\* ----------------------------------------------------------------- callers
\* a caller that is in no call of Log()
Returned == {"idle", "s_ret_shortcut", "s_ret_caughtup", "s_ret_timeout", "a_ret"}

\* cond_.Signal(): the worker, if it waits in cond_.Wait(), is woken and has
\* to take mu_ again
CondSignal == IF wpc = "bg_waiting" THEN "bg_lock" ELSE wpc

\* Log(entry, timeout_ms), line 72: the call and mu_.Lock()
SyncLock(c, k) ==
    /\ ~aborted
    /\ UNCHANGED logger
    /\ pc[c] \in Returned
    /\ nlog < MaxAppends
    /\ mu_ = NoThread
    /\ mu_' = c
    /\ nlog' = nlog + 1
    /\ id' = [id EXCEPT ![c] = nlog + 1]
    /\ entry' = [entry EXCEPT ![c] = Payload(nlog + 1, k)]
    /\ last_offset' = [last_offset EXCEPT ![c] = 0]
    /\ expired' = [expired EXCEPT ![c] = FALSE]
    /\ ret' = [ret EXCEPT ![c] = FALSE]
    /\ pc' = [pc EXCEPT ![c] = "s_locked"]
    /\ UNCHANGED <<ndebug, aborted, log_, current_offset_, sync_offset_, read_log_,
                   master_only_, callbacks_, start_offset, appended, registered,
                   worker, slave>>

\* Log(entry, timeout_ms), lines 73-77
SyncAppend(c) ==
    /\ ~aborted
    /\ UNCHANGED logger
    /\ pc[c] = "s_locked"
    /\ log_' = log_ \o RecordBytes(entry[c])
    /\ appended' = Append(appended, entry[c])
    /\ last_offset' = [last_offset EXCEPT ![c] = current_offset_]
    /\ current_offset_' = current_offset_ + LogLocal(entry[c])
    /\ wpc' = CondSignal
    /\ mu_' = NoThread
    /\ pc' = [pc EXCEPT ![c] = "s_check"]
    /\ UNCHANGED <<ndebug, aborted, sync_offset_, read_log_, master_only_, callbacks_,
                   start_offset, entry, id, expired, ret, nlog, registered,
                   w_len, w_entry, w_off, w_callback, fired, slave>>

\* line 79 with the comparison turned round
ShortcutWhenAhead(c) == master_only_ /\ sync_offset_ > last_offset[c]

\* line 79: master_only_ && sync_offset_ < last_offset, read without the lock
Shortcut(c) == master_only_ /\ sync_offset_ < last_offset[c]

\* lines 79-85
SyncCheckMasterOnly(c) ==
    /\ ~aborted
    /\ UNCHANGED logger
    /\ pc[c] = "s_check"
    /\ IF Shortcut(c)
       THEN /\ ret' = [ret EXCEPT ![c] = TRUE]
            /\ pc' = [pc EXCEPT ![c] = "s_ret_shortcut"]
       ELSE /\ ret' = ret
            /\ pc' = [pc EXCEPT ![c] = "s_loop"]
    /\ UNCHANGED <<leader, entry, id, last_offset, expired, nlog, appended,
                   registered,
                   worker, slave>>

\* get_micros() reaches stop_point: a caller inside TimeWait is woken by it
Deadline(c) ==
    /\ ~aborted
    /\ UNCHANGED logger
    /\ pc[c] \in {"s_loop", "s_lock", "s_waiting"}
    /\ ~expired[c]
    /\ expired' = [expired EXCEPT ![c] = TRUE]
    /\ pc' = [pc EXCEPT ![c] = IF pc[c] = "s_waiting" THEN "s_timedout" ELSE pc[c]]
    /\ UNCHANGED <<leader, entry, id, last_offset, ret, nlog, appended,
                   registered,
                   worker, slave>>

\* line 86: the condition of the while loop, read without the lock
SyncLoopCheck(c) ==
    /\ ~aborted
    /\ UNCHANGED logger
    /\ pc[c] = "s_loop"
    /\ pc' = [pc EXCEPT ![c] =
                IF sync_offset_ = current_offset_ THEN "s_exit_eq"
                ELSE IF expired[c] THEN "s_exit_deadline"
                ELSE "s_lock"]
    /\ UNCHANGED <<leader, entry, id, last_offset, expired, ret, nlog, appended,
                   registered,
                   worker, slave>>

\* lines 87-89: MutexLock, then TimeWait gives mu_ up and waits on log_done_;
\* with the deadline already passed TimeWait returns false at once (line 100)
SyncTimeWait(c) ==
    /\ ~aborted
    /\ UNCHANGED logger
    /\ pc[c] = "s_lock"
    /\ mu_ = NoThread
    /\ pc' = [pc EXCEPT ![c] = IF expired[c] THEN "s_break" ELSE "s_waiting"]
    /\ UNCHANGED <<leader, entry, id, last_offset, expired, ret, nlog, appended,
                   registered,
                   worker, slave>>

\* lines 89-98 without the test of line 90: a signalled TimeWait returns true
\* at once
SyncWakeNoRecheck(c) ==
    /\ ~aborted
    /\ UNCHANGED logger
    /\ pc[c] = "s_signalled"
    /\ mu_ = NoThread
    /\ master_only_' = FALSE
    /\ ret' = [ret EXCEPT ![c] = TRUE]
    /\ pc' = [pc EXCEPT ![c] = "s_ret_caughtup"]
    /\ UNCHANGED <<ndebug, aborted, log_, current_offset_, sync_offset_, read_log_,
                   callbacks_, mu_, start_offset, entry, id, last_offset, expired,
                   nlog, appended, registered,
                   worker, slave>>

\* lines 89-98: TimeWait returned true (signalled) and holds mu_ again
SyncWakeSignalled(c) ==
    /\ ~aborted
    /\ UNCHANGED logger
    /\ pc[c] = "s_signalled"
    /\ mu_ = NoThread
    /\ IF sync_offset_ # current_offset_
       THEN /\ pc' = [pc EXCEPT ![c] = "s_loop"]
            /\ UNCHANGED <<master_only_, ret>>
       ELSE /\ master_only_' = FALSE
            /\ ret' = [ret EXCEPT ![c] = TRUE]
            /\ pc' = [pc EXCEPT ![c] = "s_ret_caughtup"]
    /\ UNCHANGED <<ndebug, aborted, log_, current_offset_, sync_offset_, read_log_,
                   callbacks_, mu_, start_offset, entry, id, last_offset, expired,
                   nlog, appended, registered,
                   worker, slave>>

\* lines 89, 99-101: TimeWait returned false (timed out) and holds mu_ again
SyncWakeTimeout(c) ==
    /\ ~aborted
    /\ UNCHANGED logger
    /\ pc[c] = "s_timedout"
    /\ mu_ = NoThread
    /\ pc' = [pc EXCEPT ![c] = "s_break"]
    /\ UNCHANGED <<leader, entry, id, last_offset, expired, ret, nlog, appended,
                   registered,
                   worker, slave>>

\* where a caller stands once the loop of lines 86-102 is left
LoopLeft == {"s_exit_eq", "s_exit_deadline", "s_break"}

\* lines 103-106
SyncTimeout(c) ==
    /\ ~aborted
    /\ UNCHANGED logger
    /\ pc[c] \in LoopLeft
    /\ master_only_' = TRUE
    /\ ret' = [ret EXCEPT ![c] = TRUE]
    /\ pc' = [pc EXCEPT ![c] = "s_ret_timeout"]
    /\ UNCHANGED <<ndebug, aborted, log_, current_offset_, sync_offset_, read_log_,
                   callbacks_, mu_, start_offset, entry, id, last_offset, expired,
                   nlog, appended, registered,
                   worker, slave>>

\* Log(entry, callback), line 111: the call and mu_.Lock()
AsyncLock(c, k) ==
    /\ ~aborted
    /\ UNCHANGED logger
    /\ pc[c] \in Returned
    /\ nlog < MaxAppends
    /\ mu_ = NoThread
    /\ mu_' = c
    /\ nlog' = nlog + 1
    /\ id' = [id EXCEPT ![c] = nlog + 1]
    /\ entry' = [entry EXCEPT ![c] = Payload(nlog + 1, k)]
    /\ last_offset' = [last_offset EXCEPT ![c] = 0]
    /\ expired' = [expired EXCEPT ![c] = FALSE]
    /\ ret' = [ret EXCEPT ![c] = FALSE]
    /\ pc' = [pc EXCEPT ![c] = "a_locked"]
    /\ UNCHANGED <<ndebug, aborted, log_, current_offset_, sync_offset_, read_log_,
                   master_only_, callbacks_, start_offset, appended, registered,
                   worker, slave>>

\* Log(entry, callback), lines 112-119
AsyncAppend(c) ==
    /\ ~aborted
    /\ UNCHANGED logger
    /\ pc[c] = "a_locked"
    /\ log_' = log_ \o RecordBytes(entry[c])
    /\ appended' = Append(appended, entry[c])
    /\ callbacks_' = MapInsert(callbacks_, current_offset_, id[c])
    /\ registered' = registered \cup
                        {[id |-> id[c], off |-> current_offset_, entry |-> entry[c]]}
    /\ last_offset' = [last_offset EXCEPT ![c] = current_offset_]
    /\ current_offset_' = current_offset_ + LogLocal(entry[c])
    /\ wpc' = CondSignal
    /\ mu_' = NoThread
    /\ pc' = [pc EXCEPT ![c] = "a_ret"]
    /\ UNCHANGED <<ndebug, aborted, sync_offset_, read_log_, master_only_,
                   start_offset, entry, id, expired, ret, nlog,
                   w_len, w_entry, w_off, w_callback, fired, slave>>

\* ------------------------------------------------------------ the follower
\* AppendLog dropping a request whose record it has handled before
AppendLogDedup(data, off) ==
    IF \E j \in 1..Len(f_off) : f_off[j] = off
    THEN UNCHANGED <<slave_log, applied, f_off>>
    ELSE /\ slave_log' = slave_log \o RecordBytes(data)
         /\ applied' = Append(applied, data)
         /\ f_off' = Append(f_off, off)

\* AppendLog, lines 130-140, for a request whose log_data is data (off: where
\* the leader read it): the record is written to the follower's sync.log and
\* log_callback_ is called with it
AppendLog(data, off) ==
    /\ slave_log' = slave_log \o RecordBytes(data)
    /\ applied' = Append(applied, data)
    /\ f_off' = Append(f_off, off)

\* ---------------------------------------------------------- the worker
\* BackgroundLog, line 145: MutexLock, also when cond_.Wait() takes mu_ again
BgLock ==
    /\ ~aborted
    /\ UNCHANGED logger
    /\ wpc = "bg_lock"
    /\ mu_ = NoThread
    /\ mu_' = WorkerThread
    /\ wpc' = "bg_check"
    /\ UNCHANGED <<ndebug, aborted, log_, current_offset_, sync_offset_, read_log_,
                   master_only_, callbacks_, start_offset, callers,
                   w_len, w_entry, w_off, w_callback, fired, slave>>

\* BackgroundLog, lines 146-155 (exiting_ is never set in this file):
\* cond_.Wait() gives mu_ up; otherwise mu_ is unlocked and ReplicateLog runs
BgCheck ==
    /\ ~aborted
    /\ UNCHANGED logger
    /\ wpc = "bg_check"
    /\ wpc' = IF sync_offset_ = current_offset_ THEN "bg_waiting" ELSE "rl_while"
    /\ mu_' = NoThread
    /\ UNCHANGED <<ndebug, aborted, log_, current_offset_, sync_offset_, read_log_,
                   master_only_, callbacks_, start_offset, callers,
                   w_len, w_entry, w_off, w_callback, fired, slave>>

\* BackgroundLog, lines 156-157: mu_.Lock() after ReplicateLog returned, and
\* the unlock at the end of the scope
BgRelock ==
    /\ ~aborted
    /\ UNCHANGED logger
    /\ wpc = "bg_relock"
    /\ mu_ = NoThread
    /\ wpc' = "bg_lock"
    /\ UNCHANGED <<leader, callers, w_len, w_entry, w_off, w_callback, fired, slave>>

\* ReplicateLog, line 161: the loop condition, read without the lock
RlWhile ==
    /\ ~aborted
    /\ UNCHANGED logger
    /\ wpc = "rl_while"
    /\ wpc' = IF sync_offset_ < current_offset_ THEN "rl_lock" ELSE "rl_signal"
    /\ UNCHANGED <<leader, callers, w_len, w_entry, w_off, w_callback, fired, slave>>

\* ReplicateLog, line 162
RlLock ==
    /\ ~aborted
    /\ UNCHANGED logger
    /\ wpc = "rl_lock"
    /\ mu_ = NoThread
    /\ mu_' = WorkerThread
    /\ wpc' = "rl_check"
    /\ UNCHANGED <<ndebug, aborted, log_, current_offset_, sync_offset_, read_log_,
                   master_only_, callbacks_, start_offset, callers,
                   w_len, w_entry, w_off, w_callback, fired, slave>>

\* line 169 left out: mu_ stays locked over the reads and the RPC
RlCheckKeepsLock ==
    /\ ~aborted
    /\ UNCHANGED logger
    /\ wpc = "rl_check"
    /\ wpc' = IF sync_offset_ = current_offset_ THEN "rl_signal" ELSE "rl_read_len"
    /\ mu_' = IF sync_offset_ = current_offset_ THEN NoThread ELSE mu_
    /\ UNCHANGED <<ndebug, aborted, log_, current_offset_, sync_offset_, read_log_,
                   master_only_, callbacks_, start_offset, callers,
                   w_len, w_entry, w_off, w_callback, fired, slave>>

\* ReplicateLog, lines 163-169: mu_ is given up on both branches
RlCheck ==
    /\ ~aborted
    /\ UNCHANGED logger
    /\ wpc = "rl_check"
    /\ wpc' = IF sync_offset_ = current_offset_ THEN "rl_signal" ELSE "rl_read_len"
    /\ mu_' = NoThread
    /\ UNCHANGED <<ndebug, aborted, log_, current_offset_, sync_offset_, read_log_,
                   master_only_, callbacks_, start_offset, callers,
                   w_len, w_entry, w_off, w_callback, fired, slave>>

\* ReplicateLog, lines 173-182: read the 4-byte length; a short read fails
\* assert(0), and returns in a build without assert
RlReadLen ==
    /\ ~aborted
    /\ UNCHANGED logger
    /\ wpc = "rl_read_len"
    /\ LET buf == ReadAt(log_, read_log_, 4)
       IN  /\ read_log_' = read_log_ + Len(buf)
           /\ IF Len(buf) < 4
              THEN /\ aborted' = ~ndebug
                   /\ wpc' = "bg_relock"
                   /\ UNCHANGED <<w_len, w_off>>
              ELSE /\ aborted' = aborted
                   /\ w_len' = Decode4(buf)
                   /\ w_off' = read_log_
                   /\ wpc' = "rl_read_entry"
    /\ UNCHANGED <<ndebug, log_, current_offset_, sync_offset_, master_only_,
                   callbacks_, mu_, start_offset, callers, w_entry, w_callback,
                   fired, slave>>

\* ReplicateLog, lines 183-191: read len bytes; a short read returns
RlReadEntry ==
    /\ ~aborted
    /\ UNCHANGED logger
    /\ wpc = "rl_read_entry"
    /\ LET buf == ReadAt(log_, read_log_, w_len)
       IN  /\ read_log_' = read_log_ + Len(buf)
           /\ IF Len(buf) < w_len
              THEN /\ wpc' = "bg_relock"
                   /\ w_entry' = w_entry
              ELSE /\ wpc' = "rl_rpc"
                   /\ w_entry' = buf
    /\ UNCHANGED <<ndebug, aborted, log_, current_offset_, sync_offset_, master_only_,
                   callbacks_, mu_, start_offset, callers, w_len, w_off, w_callback,
                   fired, slave>>

\* ReplicateLog, lines 192-193: SendRequest returned true; the follower has
\* handled the request
RpcSuccess ==
    /\ ~aborted
    /\ UNCHANGED logger
    /\ wpc = "rl_rpc"
    /\ AppendLog(w_entry, w_off)
    /\ acked' = acked \cup {w_off}
    /\ wpc' = "rl_lock2"
    /\ UNCHANGED <<leader, callers, w_len, w_entry, w_off, w_callback, fired, nlost>>

\* the result of SendRequest not looked at: a failed call goes on to line 198
RpcFailIgnored ==
    /\ ~aborted
    /\ UNCHANGED logger
    /\ wpc = "rl_rpc"
    /\ wpc' = "rl_lock2"
    /\ UNCHANGED <<leader, callers, w_len, w_entry, w_off, w_callback, fired, slave>>

\* a failed SendRequest answered by calling the pending callback with false
RpcFailCallsBack ==
    /\ ~aborted
    /\ UNCHANGED logger
    /\ wpc = "rl_rpc"
    /\ wpc' = "rl_sleep"
    /\ IF sync_offset_ \in DOMAIN callbacks_
       THEN /\ fired' = Append(fired, [id |-> callbacks_[sync_offset_], arg |-> FALSE])
            /\ callbacks_' = MapErase(callbacks_, sync_offset_)
       ELSE UNCHANGED <<fired, callbacks_>>
    /\ UNCHANGED <<ndebug, aborted, log_, current_offset_, sync_offset_, read_log_,
                   master_only_, mu_, start_offset, callers,
                   w_len, w_entry, w_off, w_callback, slave>>

\* ReplicateLog, lines 192-195: SendRequest returned false and the follower
\* never saw the request (unreachable, blocked, timed out)
RpcFail ==
    /\ ~aborted
    /\ UNCHANGED logger
    /\ wpc = "rl_rpc"
    /\ wpc' = "rl_sleep"
    /\ UNCHANGED <<leader, callers, w_len, w_entry, w_off, w_callback, fired, slave>>

\* ReplicateLog, lines 192-195: SendRequest returned false although the
\* follower handled the request (its answer was lost or came too late)
RpcAckLost ==
    /\ ~aborted
    /\ UNCHANGED logger
    /\ wpc = "rl_rpc"
    /\ nlost < MaxAckLost
    /\ nlost' = nlost + 1
    /\ AppendLog(w_entry, w_off)
    /\ wpc' = "rl_sleep"
    /\ UNCHANGED <<leader, callers, w_len, w_entry, w_off, w_callback, fired, acked>>

\* one retry only: after sleep(5) the loop of line 192 is left
RlSleepNoRetry ==
    /\ ~aborted
    /\ UNCHANGED logger
    /\ wpc = "rl_sleep"
    /\ wpc' = "rl_lock2"
    /\ UNCHANGED <<leader, callers, w_len, w_entry, w_off, w_callback, fired, slave>>

\* ReplicateLog, line 196: sleep(5), then SendRequest again
RlSleep ==
    /\ ~aborted
    /\ UNCHANGED logger
    /\ wpc = "rl_sleep"
    /\ wpc' = "rl_rpc"
    /\ UNCHANGED <<leader, callers, w_len, w_entry, w_off, w_callback, fired, slave>>

\* ReplicateLog, line 199
RlLock2 ==
    /\ ~aborted
    /\ UNCHANGED logger
    /\ wpc = "rl_lock2"
    /\ mu_ = NoThread
    /\ mu_' = WorkerThread
    /\ wpc' = "rl_find"
    /\ UNCHANGED <<ndebug, aborted, log_, current_offset_, sync_offset_, read_log_,
                   master_only_, callbacks_, start_offset, callers,
                   w_len, w_entry, w_off, w_callback, fired, slave>>

\* line 217 counting the length twice
AdvanceTwice(len) == sync_offset_ + 4 + len + len + 4

\* line 217 assigning the size of the record instead of adding it
AdvanceAssign(len) == 4 + len

\* line 217
Advance(len) == sync_offset_ + 4 + len

\* lines 200-220 with sync_offset_ += 4 + len done before the callback is
\* looked for
RlFindAdvanceFirst ==
    /\ ~aborted
    /\ UNCHANGED logger
    /\ wpc = "rl_find"
    /\ sync_offset_' = Advance(w_len)
    /\ IF sync_offset_ \in DOMAIN callbacks_
       THEN /\ w_callback' = callbacks_[sync_offset_]
            /\ callbacks_' = MapErase(callbacks_, sync_offset_)
            /\ mu_' = NoThread
            /\ wpc' = "rl_callback"
            /\ UNCHANGED aborted
       ELSE /\ mu_' = NoThread
            /\ wpc' = "rl_while"
            /\ UNCHANGED <<aborted, w_callback, callbacks_>>
    /\ UNCHANGED <<ndebug, log_, current_offset_, read_log_, master_only_,
                   start_offset, callers, w_len, w_entry, w_off, fired, slave>>

\* ReplicateLog, lines 200-220: callbacks_.find(sync_offset_).  Found: the
\* entry is erased and mu_ given up for the call of the callback (line 204
\* reads the erased node, but only to log its key, and the log output is no
\* part of this state).  Not found:
\* at a non-zero sync_offset_ assert(0) fails; otherwise, and in a build
\* without assert, sync_offset_ is advanced and mu_ given up.
RlFind ==
    /\ ~aborted
    /\ UNCHANGED logger
    /\ wpc = "rl_find"
    /\ IF sync_offset_ \in DOMAIN callbacks_
       THEN /\ w_callback' = callbacks_[sync_offset_]
            /\ callbacks_' = MapErase(callbacks_, sync_offset_)
            /\ mu_' = NoThread
            /\ wpc' = "rl_callback"
            /\ UNCHANGED <<aborted, sync_offset_>>
       ELSE IF sync_offset_ # 0 /\ ~ndebug
       THEN /\ aborted' = TRUE
            /\ UNCHANGED <<w_callback, callbacks_, mu_, wpc, sync_offset_>>
       ELSE /\ sync_offset_' = Advance(w_len)
            /\ mu_' = NoThread
            /\ wpc' = "rl_while"
            /\ UNCHANGED <<aborted, w_callback, callbacks_>>
    /\ UNCHANGED <<ndebug, log_, current_offset_, read_log_, master_only_,
                   start_offset, callers, w_len, w_entry, w_off, fired, slave>>

\* ReplicateLog, line 206: callback(true), called without the lock
RlCallback ==
    /\ ~aborted
    /\ UNCHANGED logger
    /\ wpc = "rl_callback"
    /\ fired' = Append(fired, [id |-> w_callback, arg |-> TRUE])
    /\ wpc' = "rl_lock3"
    /\ UNCHANGED <<leader, callers, w_len, w_entry, w_off, w_callback, slave>>

\* ReplicateLog, line 207
RlLock3 ==
    /\ ~aborted
    /\ UNCHANGED logger
    /\ wpc = "rl_lock3"
    /\ mu_ = NoThread
    /\ mu_' = WorkerThread
    /\ wpc' = "rl_advance"
    /\ UNCHANGED <<ndebug, aborted, log_, current_offset_, sync_offset_, read_log_,
                   master_only_, callbacks_, start_offset, callers,
                   w_len, w_entry, w_off, w_callback, fired, slave>>

\* ReplicateLog, lines 217-221, after the callback
RlAdvance ==
    /\ ~aborted
    /\ UNCHANGED logger
    /\ wpc = "rl_advance"
    /\ sync_offset_' = Advance(w_len)
    /\ mu_' = NoThread
    /\ wpc' = "rl_while"
    /\ UNCHANGED <<ndebug, aborted, log_, current_offset_, read_log_, master_only_,
                   callbacks_, start_offset, callers,
                   w_len, w_entry, w_off, w_callback, fired, slave>>

\* ReplicateLog, line 223: log_done_.Signal() wakes one caller that waits in
\* TimeWait, if there is one; then ReplicateLog returns
RlSignal ==
    /\ ~aborted
    /\ UNCHANGED logger
    /\ wpc = "rl_signal"
    /\ IF \E c \in Callers : pc[c] = "s_waiting"
       THEN \E c \in Callers :
                /\ pc[c] = "s_waiting"
                /\ pc' = [pc EXCEPT ![c] = "s_signalled"]
       ELSE pc' = pc
    /\ wpc' = "bg_relock"
    /\ UNCHANGED <<leader, entry, id, last_offset, expired, ret, nlog, appended,
                   registered,
                   w_len, w_entry, w_off, w_callback, fired, slave>>

\* ------------------------------------------------- the progress thread
\* Init(), lines 34-39: read(fp, buf, 4) of prog.log; sync_offset_ is set
\* only when 4 bytes came, and is 0 (line 25) otherwise
ReadProgress(file) == IF Len(file) >= 4 THEN Decode4(SubSeq(file, 1, 4)) ELSE 0

\* LogProgress, lines 228-234: sleep(10); prog.tmp is opened, created if it
\* is not there and not truncated if it is; sync_offset_ is copied to buf
\* without the lock
LpOpen ==
    /\ ~aborted
    /\ lpc = "lp_sleep"
    /\ lp_buf' = Encode4(sync_offset_)
    /\ lpc' = "lp_write"
    /\ UNCHANGED <<leader, callers, worker, slave, prog_log, prog_tmp, lp_ret, lp_old,
                   ncrash>>

\* LogProgress, line 235: write(fp, buf, 4) at position 0 of prog.tmp puts
\* down n of the 4 bytes over what is there and returns n
LpWrite(n) ==
    /\ ~aborted
    /\ lpc = "lp_write"
    /\ prog_tmp' = SubSeq(lp_buf, 1, n) \o SubSeq(prog_tmp, n + 1, Len(prog_tmp))
    /\ lp_ret' = n
    /\ lpc' = "lp_rename"
    /\ UNCHANGED <<leader, callers, worker, slave, prog_log, lp_buf, lp_old, ncrash>>

\* lines 236-239 with prog.tmp renamed whatever write() returned
LpRenameUnchecked ==
    /\ ~aborted
    /\ lpc = "lp_rename"
    /\ prog_log' = prog_tmp
    /\ prog_tmp' = <<>>
    /\ lpc' = "lp_sleep"
    /\ lp_buf' = <<>>
    /\ lp_ret' = 0
    /\ lp_old' = ReadProgress(prog_tmp)
    /\ UNCHANGED <<leader, callers, worker, slave, ncrash>>

\* LogProgress, lines 236-239: if all 4 bytes were written prog.tmp takes the
\* place of prog.log in one step of the file system; close(fp); buf and ret
\* go out of scope
LpRename ==
    /\ ~aborted
    /\ lpc = "lp_rename"
    /\ IF lp_ret = 4
       THEN /\ prog_log' = prog_tmp
            /\ prog_tmp' = <<>>
            /\ lp_old' = ReadProgress(prog_tmp)
       ELSE UNCHANGED <<prog_log, prog_tmp, lp_old>>
    /\ lpc' = "lp_sleep"
    /\ lp_buf' = <<>>
    /\ lp_ret' = 0
    /\ UNCHANGED <<leader, callers, worker, slave, ncrash>>

\* ------------------------------------------------------- crash and restart
\* what a crash leaves of the record an append is writing (LogLocal, lines
\* 250-251, runs with mu_ held): nothing, a part of it, or all of it
CrashTails ==
    IF \E c \in Callers : mu_ = c /\ pc[c] \in {"s_locked", "a_locked"}
    THEN UNION {{SubSeq(RecordBytes(entry[c]), 1, j) : j \in 0..(4 + Len(entry[c]))} :
                   c \in {d \in Callers : mu_ = d /\ pc[d] \in {"s_locked", "a_locked"}}}
    ELSE {<<>>}

\* the leader process dies, at any point, also by a failed assert, and is
\* started again: the constructor and Init(), lines 23-65, on the files as
\* they are.  The follower lives on; nlog, appended, registered and fired keep
\* the history of the run.
Crash ==
    /\ ncrash < MaxCrashes
    /\ ncrash' = ncrash + 1
    /\ \E t \in CrashTails : log_' = log_ \o t
    /\ sync_offset_' = ReadProgress(prog_log)
    /\ start_offset' = ReadProgress(prog_log)
    /\ read_log_' = ReadProgress(prog_log)
    /\ current_offset_' = Len(log_')
    /\ aborted' = (~ndebug /\ Len(log_') < ReadProgress(prog_log))
    /\ master_only_' = FALSE
    /\ callbacks_' = EmptyMap
    /\ mu_' = NoThread
    /\ pc' = [c \in Callers |-> "idle"]
    /\ entry' = [c \in Callers |-> <<>>]
    /\ id' = [c \in Callers |-> 0]
    /\ last_offset' = [c \in Callers |-> 0]
    /\ expired' = [c \in Callers |-> FALSE]
    /\ ret' = [c \in Callers |-> FALSE]
    /\ wpc' = "bg_lock"
    /\ w_len' = 0
    /\ w_entry' = <<>>
    /\ w_off' = 0
    /\ w_callback' = 0
    /\ lpc' = "lp_sleep"
    /\ lp_buf' = <<>>
    /\ lp_ret' = 0
    /\ lp_old' = ReadProgress(prog_log)
    /\ UNCHANGED <<ndebug, nlog, appended, registered, fired, slave, prog_log, prog_tmp>>

\* ------------------------------------------------------------ specification
Lengths == 0..MaxPayloadLen

Next ==
    \/ \E c \in Callers, k \in Lengths : SyncLock(c, k)
    \/ \E c \in Callers : SyncAppend(c)
    \/ \E c \in Callers : SyncCheckMasterOnly(c)
    \/ \E c \in Callers : Deadline(c)
    \/ \E c \in Callers : SyncLoopCheck(c)
    \/ \E c \in Callers : SyncTimeWait(c)
    \/ \E c \in Callers : SyncWakeSignalled(c)
    \/ \E c \in Callers : SyncWakeTimeout(c)
    \/ \E c \in Callers : SyncTimeout(c)
    \/ \E c \in Callers, k \in Lengths : AsyncLock(c, k)
    \/ \E c \in Callers : AsyncAppend(c)
    \/ BgLock
    \/ BgCheck
    \/ BgRelock
    \/ RlWhile
    \/ RlLock
    \/ RlCheck
    \/ RlReadLen
    \/ RlReadEntry
    \/ RpcSuccess
    \/ RpcFail
    \/ RpcAckLost
    \/ RlSleep
    \/ RlLock2
    \/ RlFind
    \/ RlCallback
    \/ RlLock3
    \/ RlAdvance
    \/ RlSignal

Spec == Init /\ [][Next]_vars

\* ------------------------------------------------------------------ restart
\* what a restart may find in sync.log: up to MaxInitRecords whole records
InitLogs ==
    UNION {{[n \in 1..m |-> Payload(n, ks[n])] : ks \in [1..m -> Lengths]} :
              m \in 0..MaxInitRecords}

\* what it may find in prog.log: the start of a record of sync.log, or its end
Boundaries(file) ==
    {RecordOffsets(file, 0)[i] : i \in 1..Len(RecordOffsets(file, 0))}
        \cup {Len(file)}

\* a restart of the leader: Init() on a disk left by an earlier run
InitRecover ==
    /\ ndebug \in BOOLEAN
    /\ \E es \in InitLogs : \E p \in Boundaries(Concat(es)) :
           /\ prog_log = Encode4(p)
           /\ Startup(Concat(es), p)

\* the worker after a restart, with no call of Log()
NextRecover ==
    \/ BgLock
    \/ BgCheck
    \/ BgRelock
    \/ RlWhile
    \/ RlLock
    \/ RlCheck
    \/ RlReadLen
    \/ RlReadEntry
    \/ RpcSuccess
    \/ RpcFail
    \/ RpcAckLost
    \/ RlSleep
    \/ RlLock2
    \/ RlFind
    \/ RlSignal

SpecRecover == InitRecover /\ [][NextRecover]_vars

\* what a crash inside LogLocal (the two writes of lines 250-251) leaves
\* behind the last whole record: nothing, or a record cut short
TornTails(n) ==
    UNION {{SubSeq(RecordBytes(Payload(n, k)), 1, j) : j \in 0..(3 + k)} :
              k \in Lengths}

\* a restart of the leader on a sync.log that may end in a record cut short
InitTorn ==
    /\ ndebug \in BOOLEAN
    /\ \E es \in InitLogs : \E t \in TornTails(Len(es) + 1) :
       \E p \in Boundaries(Concat(es)) :
           /\ prog_log = Encode4(p)
           /\ Startup(Concat(es) \o t, p)

SpecTorn == InitTorn /\ [][NextRecover]_vars

\* a leader with its worker and its progress thread, taking asynchronous
\* appends, that may crash at any point and be started again; every RPC
\* succeeds at once
NextCrash ==
    \/ \E c \in Callers : \E k \in Lengths : AsyncLock(c, k)
    \/ \E c \in Callers : AsyncAppend(c)
    \/ BgLock
    \/ BgCheck
    \/ BgRelock
    \/ RlWhile
    \/ RlLock
    \/ RlCheck
    \/ RlReadLen
    \/ RlReadEntry
    \/ RpcSuccess
    \/ RlLock2
    \/ RlFind
    \/ RlCallback
    \/ RlLock3
    \/ RlAdvance
    \/ RlSignal
    \/ LpOpen
    \/ \E n \in 0..4 : LpWrite(n)
    \/ LpRename
    \/ Crash

SpecCrash == Init /\ [][NextCrash]_vars

\* the steps of a caller and of the worker that need mu_
CallerLockSteps(c) ==
    SyncTimeWait(c) \/ SyncWakeSignalled(c) \/ SyncWakeTimeout(c)
WorkerLockSteps == BgLock \/ BgRelock \/ RlLock \/ RlLock2 \/ RlLock3

\* their other steps; SendRequest returns, with whatever result
CallerSteps(c) ==
    \/ SyncAppend(c)
    \/ SyncCheckMasterOnly(c)
    \/ SyncLoopCheck(c)
    \/ SyncTimeout(c)
    \/ AsyncAppend(c)
WorkerSteps ==
    \/ BgCheck
    \/ RlWhile
    \/ RlCheck
    \/ RlReadLen
    \/ RlReadEntry
    \/ RpcSuccess
    \/ RpcFail
    \/ RpcAckLost
    \/ RlSleep
    \/ RlFind
    \/ RlCallback
    \/ RlAdvance
    \/ RlSignal

\* Scheduling: every thread that can run does run, a thread that asks for mu_
\* gets it in the end, and the clock reaches every stop_point.  Nothing is
\* assumed of the follower: SendRequest may fail for ever.
FairSpec ==
    /\ Spec
    /\ \A c \in Callers : WF_vars(CallerSteps(c))
    /\ \A c \in Callers : SF_vars(CallerLockSteps(c))
    /\ \A c \in Callers : WF_vars(Deadline(c))
    /\ WF_vars(WorkerSteps)
    /\ SF_vars(WorkerLockSteps)

\* FairSpec with every record's RPC succeeding in the end: SendRequest, tried
\* again and again by the loop of lines 192-197, does not fail for ever
FairRpcSpec ==
    /\ FairSpec
    /\ SF_vars(RpcSuccess)

TypeOK ==
    /\ ndebug \in BOOLEAN
    /\ aborted \in BOOLEAN
    /\ current_offset_ \in Nat
    /\ sync_offset_ \in Nat
    /\ read_log_ \in Nat
    /\ master_only_ \in BOOLEAN
    /\ mu_ \in {NoThread, WorkerThread} \cup Callers
    /\ nlog \in 0..MaxAppends
    /\ nlost \in 0..MaxAckLost
    /\ Len(prog_log) \in 0..4
    /\ Len(prog_tmp) \in 0..4
    /\ lpc \in {"lp_sleep", "lp_write", "lp_rename"}
    /\ lp_ret \in 0..4
    /\ ncrash \in 0..MaxCrashes

\* -------------------------------------------------------------- properties
\* a caller that is inside Log(entry, timeout_ms)
InSync == {"s_locked", "s_check", "s_loop", "s_lock", "s_waiting", "s_signalled",
           "s_timedout", "s_exit_eq", "s_exit_deadline", "s_break"}

\* a caller whose Log(entry, timeout_ms) has returned
SyncReturned == {"s_ret_shortcut", "s_ret_caughtup", "s_ret_timeout"}

\* C1: in every reachable state of the leader, whatever the interleaving of
\* synchronous appends, asynchronous appends and drain steps of the worker,
\* sync_offset_ <= current_offset_.
C1_SyncNotAheadOfCurrent == sync_offset_ <= current_offset_

\* C1's case: a synchronous and an asynchronous append have both been written
\* and the worker has drained them both.
C1_Witness ==
    /\ Len(appended) = 2
    /\ Cardinality(registered) = 1
    /\ \E c \in Callers : pc[c] \in SyncReturned
    /\ sync_offset_ = current_offset_
    /\ Len(fired) = 1

\* C10: starting from an empty log, after any appends by any callers
\* current_offset_ is the sum of (4 + length) over the entries appended, and
\* the log read from offset 0 is exactly those entries, each as a 4-byte
\* length and the payload, in the order the appends took the lock (the n-th
\* to take the lock passes Payload(n, _)).
C10_LogIsAppendsInLockOrder ==
    /\ current_offset_ = SumSizes(appended)
    /\ current_offset_ = Len(log_)
    /\ log_ = Concat(appended)
    /\ ReadRecords(log_, 0) = appended
    /\ \A n \in 1..Len(appended) : appended[n] = Payload(n, Len(appended[n]))

\* C10's case: a synchronous and an asynchronous append of different lengths,
\* by two callers, have been written.
C10_Witness ==
    /\ Len(appended) = 2
    /\ Len(appended[1]) # Len(appended[2])
    /\ Cardinality(registered) = 1
    /\ \E c, d \in Callers : c # d /\ pc[c] \in SyncReturned /\ pc[d] = "a_ret"

\* the record of the leader's log that starts at offset off
RecordAt(off) == ReadAt(log_, off + 4, Decode4(ReadAt(log_, off, 4)))

\* the follower has handled an AppendLog for the leader's record at off, with
\* payload e, and has it in its log
OnFollower(off, e) ==
    \E j \in 1..Len(f_off) :
        /\ f_off[j] = off
        /\ applied[j] = e
        /\ j <= Len(ReadRecords(slave_log, 0))
        /\ ReadRecords(slave_log, 0)[j] = e

\* C2: the callback of an asynchronous append is invoked at most once, always
\* with true, and never before the follower's AppendLog has appended its
\* payload to the follower's log; once the backlog is drained
\* (sync_offset_ = current_offset_) it has been invoked exactly once.
C2_CallbackOnceAfterFollower ==
    /\ \A i \in 1..Len(fired) :
        /\ fired[i].arg = TRUE
        /\ \A j \in 1..Len(fired) : fired[i].id = fired[j].id => i = j
        /\ \E r \in registered : r.id = fired[i].id /\ OnFollower(r.off, r.entry)
    /\ sync_offset_ = current_offset_ =>
           \A r \in registered : \E i \in 1..Len(fired) : fired[i].id = r.id

\* C2's case: two asynchronous appends, an RPC that had to be repeated, and
\* the backlog drained with both callbacks invoked.
C2_Witness ==
    /\ Cardinality(registered) = 2
    /\ nlost = 1
    /\ sync_offset_ = current_offset_
    /\ Len(fired) = 2

\* C3: the follower handles the leader's records in log order: the first RPC
\* it handles is for the record the worker started at, each later one is for
\* the same record again or for the record right after it, and what it
\* appends is that record's payload; and while an RPC for a record is being
\* sent, the RPC of every record before it has returned success.
C3_FollowerGetsLogOrder ==
    /\ Len(f_off) > 0 => f_off[1] = start_offset
    /\ \A j \in 1..Len(f_off) :
        /\ f_off[j] + 4 <= Len(log_)
        /\ applied[j] = RecordAt(f_off[j])
        /\ j < Len(f_off) =>
              \/ f_off[j + 1] = f_off[j]
              \/ f_off[j + 1] = f_off[j] + 4 + Len(applied[j])
    /\ ReadRecords(slave_log, 0) = applied
    /\ wpc \in {"rl_rpc", "rl_sleep"} =>
           \A i \in 1..Len(RecordOffsets(log_, start_offset)) :
               RecordOffsets(log_, start_offset)[i] < w_off =>
                   RecordOffsets(log_, start_offset)[i] \in acked

\* C3's case: two records replicated, one of them sent twice.
C3_Witness ==
    /\ Len(f_off) = 3
    /\ f_off[1] # f_off[3]
    /\ Cardinality(acked) = 2

\* C6: the worker does not hold mu_ while it is in SendRequest or in the
\* sleep before the retry, so that a caller of Log() that finds mu_ free can
\* take it, and the one that holds it can write its record.
C6_NoLockAcrossRpc ==
    wpc \in {"rl_rpc", "rl_sleep"} =>
        /\ mu_ # WorkerThread
        /\ \A c \in Callers :
              /\ (pc[c] \in {"s_locked", "a_locked"} /\ ~aborted) =>
                     (ENABLED SyncAppend(c)) \/ (ENABLED AsyncAppend(c))
              /\ (pc[c] \in Returned /\ mu_ = NoThread /\ nlog < MaxAppends
                    /\ ~aborted) =>
                     (ENABLED SyncLock(c, 0)) /\ (ENABLED AsyncLock(c, 0))

\* C6's case: the follower has answered nothing, the worker sleeps before the
\* retry of the first record, and a caller holds mu_ to write the second.
C6_Witness ==
    /\ wpc = "rl_sleep"
    /\ acked = {}
    /\ Len(appended) = 1
    /\ \E c \in Callers : mu_ = c /\ pc[c] \in {"s_locked", "a_locked"}

\* C9: while the follower has handled no RPC, every synchronous append that
\* has returned returned true and leaves sync_offset_ < current_offset_ and
\* master_only_ set; and a synchronous append that reaches line 79 with
\* master_only_ set and sync_offset_ below the offset of its record returns
\* true from there, without entering the wait, and leaves master_only_ and
\* sync_offset_ as they were.
C9_DegradedShortcut ==
    /\ [](f_off = <<>> =>
            \A c \in Callers : pc[c] \in SyncReturned =>
                ret[c] /\ sync_offset_ < current_offset_ /\ master_only_)
    /\ [][\A c \in Callers :
            (/\ pc[c] = "s_check"
             /\ pc'[c] # "s_check"
             /\ master_only_
             /\ sync_offset_ < last_offset[c])
            => (/\ pc'[c] = "s_ret_shortcut"
                /\ ret'[c]
                /\ master_only_' = master_only_
                /\ sync_offset_' = sync_offset_)]_vars

\* C9's case: the follower has handled nothing, one synchronous append has
\* returned through the timeout and a second one through line 81.
C9_Witness ==
    /\ f_off = <<>>
    /\ \E c, d \in Callers :
          /\ pc[c] = "s_ret_timeout" /\ expired[c]
          /\ pc[d] = "s_ret_shortcut" /\ ~expired[d] /\ ret[d]
          /\ sync_offset_ < last_offset[d]
    /\ master_only_
    /\ sync_offset_ < current_offset_

\* C7 as stated: master_only_ goes from false to true only in the step of a
\* synchronous append whose deadline has passed while
\* sync_offset_ < current_offset_, and a synchronous append that left the
\* loop because it read sync_offset_ = current_offset_ does not set it.
C7_MasterOnlyOnlyOnDeadline ==
    [][/\ (~master_only_ /\ master_only_') =>
             \E c \in Callers :
                 /\ pc[c] \in LoopLeft
                 /\ pc'[c] = "s_ret_timeout"
                 /\ expired[c]
                 /\ sync_offset_ < current_offset_
       /\ \A c \in Callers :
             (pc[c] = "s_exit_eq" /\ pc'[c] # "s_exit_eq") =>
                 master_only_' = master_only_]_vars

\* C8 as stated: a synchronous append that has read
\* sync_offset_ = current_offset_ before its deadline, and returns while
\* master_only_ is set and the backlog is still drained, returns with
\* master_only_ cleared.
C8_CaughtUpClearsMasterOnly ==
    [][\A c \in Callers :
          (/\ master_only_
           /\ sync_offset_ = current_offset_
           /\ ~expired[c]
           /\ pc[c] = "s_exit_eq"
           /\ pc'[c] \in SyncReturned)
          => ~master_only_']_vars

\* a sequence with immediate repeats left out
RECURSIVE Dedup(_)
Dedup(q) ==
    IF Len(q) <= 1 THEN q
    ELSE IF q[1] = q[2] THEN Dedup(Tail(q))
    ELSE <<q[1]>> \o Dedup(Tail(q))

\* the worker has nothing left to do: it waits in cond_.Wait(), or is gone
WorkerAtRest == aborted \/ wpc = "bg_waiting"

\* C4 as stated: after a restart on a log of length X with persisted progress
\* P <= X the first record read is the one at P, and once the worker is at
\* rest the follower has been sent exactly the records of [P, X), in order
\* (a record repeated by a retry counted once), and sync_offset_ = X.
C4_RecoveryReplaysSuffix ==
    /\ Len(f_off) > 0 => f_off[1] = start_offset
    /\ WorkerAtRest =>
          /\ sync_offset_ = Len(log_)
          /\ Dedup(f_off) = RecordOffsets(log_, start_offset)
          /\ Dedup(f_off) = RecordOffsets(log_, start_offset) =>
                \A j \in 1..Len(f_off) : applied[j] = RecordAt(f_off[j])

\* C5 as stated: a synchronous Log() that has been called returns in every
\* interleaving, also when no RPC ever succeeds; it returns true, and its
\* record is then in the log at last_offset and counted in current_offset_.
C5_SyncAlwaysReturnsTrue ==
    \A c \in Callers :
        (pc[c] \in InSync) ~>
            (/\ pc[c] \in SyncReturned
             /\ ret[c]
             /\ last_offset[c] + 4 + Len(entry[c]) <= current_offset_
             /\ last_offset[c] + 4 <= Len(log_)
             /\ RecordAt(last_offset[c]) = entry[c])

\* a step in which SendRequest returns true
RpcReturnsTrue == wpc = "rl_rpc" /\ wpc' = "rl_lock2"

\* a step in which the follower handles the request the worker has sent
DeliveredStep == RpcReturnsTrue \/ nlost' # nlost

\* C12: for every request that reaches the follower's AppendLog the follower
\* appends exactly one record (4-byte length, then the payload) to its log
\* and applies that payload exactly once; SendRequest returns true only for a
\* request handled this way; nothing is dropped as a duplicate, so the
\* follower's log is at all times the sequence of payloads applied, one
\* record each, a payload that came twice being there twice.
C12_FollowerAppendsAndAppliesEachRequest ==
    [][/\ DeliveredStep =>
            /\ slave_log' = slave_log \o Encode4(Len(w_entry)) \o w_entry
            /\ applied' = Append(applied, w_entry)
            /\ f_off' = Append(f_off, w_off)
       /\ ~DeliveredStep => UNCHANGED <<slave_log, applied, f_off>>
       /\ ReadRecords(slave_log', 0) = applied'
       /\ Len(slave_log') = SumSizes(applied')]_vars

\* C12's case: the same record has reached the follower twice (the answer to
\* the first request was lost), is twice in its log and was applied twice,
\* and the second request has been answered with success.
C12_Witness ==
    /\ Len(f_off) = 2
    /\ f_off[1] = f_off[2]
    /\ applied[1] = applied[2]
    /\ Len(applied[1]) = 1
    /\ ReadRecords(slave_log, 0) = <<applied[1], applied[1]>>
    /\ f_off[2] \in acked

\* a step in which SendRequest returns false
RpcReturnsFalse == wpc = "rl_rpc" /\ wpc' = "rl_sleep"

\* C13: a SendRequest that returns false changes nothing on the leader:
\* sync_offset_, current_offset_, the read cursor and callbacks_ stay, no
\* callback is called and no caller is woken or returns; the worker then
\* sleeps and sends the same record again; and sync_offset_ moves past a
\* record only when a SendRequest for that very record has returned true.
C13_FailedRpcChangesNothing ==
    [][/\ RpcReturnsFalse =>
            UNCHANGED <<sync_offset_, current_offset_, read_log_, callbacks_,
                        master_only_, log_, fired, callers>>
       /\ wpc = "rl_sleep" =>
            /\ wpc' \in {"rl_sleep", "rl_rpc"}
            /\ UNCHANGED <<w_entry, w_off, w_len, sync_offset_, fired>>
       /\ sync_offset_' # sync_offset_ =>
            /\ sync_offset_ \in acked
            /\ w_off = sync_offset_
            /\ w_entry = RecordAt(sync_offset_)
            /\ sync_offset_' = sync_offset_ + 4 + Len(w_entry)]_vars

\* C13's case: SendRequest has returned false while a callback is pending
\* for the record and a synchronous caller waits for the backlog.
C13_Witness ==
    /\ wpc = "rl_sleep"
    /\ sync_offset_ \in DOMAIN callbacks_
    /\ \E c \in Callers : pc[c] = "s_waiting"
    /\ sync_offset_ < current_offset_
    /\ ~(sync_offset_ \in acked)

\* C14 as stated: whenever the worker has replicated a record that starts at
\* a non-zero offset and looks for its callback (line 200), callbacks_ holds
\* an entry keyed by that offset, so that the fatal check of lines 209-215 is
\* never reached.
C14_CallbackAlwaysPending ==
    /\ ~aborted
    /\ (wpc = "rl_find" /\ sync_offset_ # 0) => sync_offset_ \in DOMAIN callbacks_

\* the backlog is drained and the callback of every asynchronous append made
\* so far has been called
Drained ==
    /\ sync_offset_ = current_offset_
    /\ \A r \in registered : \E i \in 1..Len(fired) : fired[i].id = r.id

\* C15 as stated: with threads scheduled fairly and no RPC failing for ever,
\* once the appends have stopped the worker reaches
\* sync_offset_ = current_offset_ with every registered callback called, and
\* stays there: no wake-up of the worker is lost.
C15_BacklogEventuallyDrained == <>[]Drained

\* C16 as stated: when the callback registered at offset k runs (line 206),
\* sync_offset_ has been advanced already and is greater than k.
C16_AdvancedBeforeCallback ==
    wpc = "rl_callback" =>
        \A r \in registered : r.id = w_callback => sync_offset_ > r.off

\* C16, amended: the callback of a record is looked up at the key
\* sync_offset_ and called while sync_offset_ still is that key: when the
\* callback registered at offset k is called, with true, sync_offset_ = k and
\* the call does not change it; sync_offset_ is advanced by the size of the
\* record only after the callback has returned.
C16_CallbackBeforeAdvance ==
    [][/\ fired' # fired =>
            \E r \in registered :
                /\ r.id = w_callback
                /\ fired' = Append(fired, [id |-> r.id, arg |-> TRUE])
                /\ sync_offset_ = r.off
                /\ sync_offset_' = r.off
       /\ (sync_offset_' # sync_offset_ /\ sync_offset_ \in {r.off : r \in registered}) =>
            \E r \in registered :
                /\ r.off = sync_offset_
                /\ \E i \in 1..Len(fired) : fired[i].id = r.id
                /\ sync_offset_' = r.off + 4 + Len(r.entry)]_vars

\* C16's case: the callback of a record that starts at a non-zero offset has
\* just been called and sync_offset_ is not yet advanced.
C16_Witness ==
    /\ wpc = "rl_lock3"
    /\ sync_offset_ > 0
    /\ \E r \in registered :
        /\ r.id = w_callback
        /\ r.off = sync_offset_
        /\ fired[Len(fired)].id = r.id

\* a step inside the locked part of an append: lines 73-76 or 112-117
AppendStep ==
    \E c \in Callers : mu_ = c /\ pc[c] \in {"s_locked", "a_locked"}

\* a step of the worker in ReplicateLog, past the RPC, with mu_ held
DrainStep == mu_ = WorkerThread /\ wpc \in {"rl_find", "rl_advance"}

\* C18: current_offset_ and sync_offset_ never decrease; current_offset_
\* changes only in a step of an append made with mu_ held, and that step
\* leaves sync_offset_ alone; sync_offset_ changes only in a step of the
\* worker's ReplicateLog, and that step leaves current_offset_ alone.
C18_OffsetsMonotoneAndFramed ==
    [][/\ current_offset_' >= current_offset_
       /\ sync_offset_' >= sync_offset_
       /\ current_offset_' # current_offset_ =>
            /\ AppendStep
            /\ sync_offset_' = sync_offset_
       /\ sync_offset_' # sync_offset_ =>
            /\ DrainStep
            /\ current_offset_' = current_offset_]_vars

\* C18's case: two records of different sizes have been appended and the
\* worker has advanced sync_offset_ past both.
C18_Witness ==
    /\ Len(appended) = 2
    /\ Len(appended[1]) > Len(appended[2])
    /\ sync_offset_ = current_offset_
    /\ current_offset_ = SumSizes(appended)

\* C20: a synchronous append that returns true at line 98 (woken by
\* log_done_ and sync_offset_ = current_offset_ found under mu_) has its own
\* record acknowledged: sync_offset_ is at or past the end of the record, a
\* SendRequest for it has returned true and the follower holds it, whatever
\* other appends ran meanwhile.
C20_CaughtUpReturnMeansOwnRecordAcked ==
    \A c \in Callers :
        pc[c] = "s_ret_caughtup" =>
            /\ sync_offset_ >= last_offset[c] + 4 + Len(entry[c])
            /\ last_offset[c] \in acked
            /\ OnFollower(last_offset[c], entry[c])

\* C20's case: a synchronous append has returned at line 98 while another
\* caller's record was appended behind it and a third append is under way.
C20_Witness ==
    \E c, d \in Callers :
        /\ c # d
        /\ pc[c] = "s_ret_caughtup"
        /\ Len(appended) = 2
        /\ last_offset[c] = 0
        /\ pc[d] \in {"a_ret", "s_check", "s_loop", "s_waiting", "s_signalled"}

\* a step in which read() returns less than asked for (lines 175, 185)
ShortRead ==
    /\ wpc \in {"rl_read_len", "rl_read_entry"}
    /\ wpc' # "rl_read_entry"
    /\ wpc' # "rl_rpc"

\* C17 as stated: when the header or the payload of the next record is read
\* short, ReplicateLog returns with sync_offset_ unchanged and nothing sent,
\* the process lives on, and the read cursor is at the start of the record
\* (equal to sync_offset_), so that the next pass reads the same record from
\* its beginning.
C17_ShortReadConsumesNothing ==
    [][ShortRead =>
            /\ sync_offset_' = sync_offset_
            /\ f_off' = f_off
            /\ ~aborted'
            /\ read_log_' = sync_offset_']_vars

\* C11: whatever the point at which the leader crashes while LogProgress
\* writes, the offset Init() reads from prog.log at the restart is the one
\* persisted before or the complete new one: prog.log is empty (not there) or
\* 4 bytes long, it changes only by taking the 4 bytes of buf, the value of
\* sync_offset_ copied in this round, and a restart reads exactly the offset
\* that Init() or the last such change left there.
C11_ProgressFileCrashSafe ==
    [][/\ Len(prog_log') \in {0, 4}
       /\ prog_log' # prog_log =>
            /\ Len(lp_buf) = 4
            /\ prog_log' = lp_buf
            /\ lp_old' = Decode4(lp_buf)
       /\ prog_log' = prog_log => lp_old' = lp_old
       /\ ncrash' # ncrash =>
            /\ sync_offset_' = lp_old
            /\ Len(prog_log) = 4 => Encode4(sync_offset_') = prog_log]_vars

\* C11's case: an offset above 0 was persisted, a later round wrote only a
\* part of buf to prog.tmp, the leader crashed there and has restarted.
C11_Witness ==
    /\ ncrash = 1
    /\ Len(prog_log) = 4
    /\ Len(prog_tmp) \in 1..3
    /\ start_offset > 0
    /\ start_offset = Decode4(prog_log)
    /\ lpc = "lp_sleep"

\* x is where a record starts or ends: where an append has put a record, or
\* where reading sync.log from offset 0 record by record comes by
IsRecordBound(x) ==
    \/ x = 0
    \/ \E r \in registered : x = r.off \/ x = r.off + 4 + Len(r.entry)
    \/ x \in Boundaries(log_)
    \/ \E b \in Boundaries(log_) \ {Len(log_)} : x = b + 4 + Len(RecordAt(b))

\* the offset prog.log holds is such a place
ProgressOnBound == IsRecordBound(ReadProgress(prog_log))

\* C19 as stated: the offset held by prog.log is at all times a record
\* boundary of sync.log and at most sync_offset_, which is at most
\* current_offset_; it never decreases; and the check of line 50 passes at
\* every restart.
C19_ProgressIsBoundaryAndBehind ==
    [][/\ ProgressOnBound'
       /\ ReadProgress(prog_log') <= sync_offset_'
       /\ sync_offset_' <= current_offset_'
       /\ ReadProgress(prog_log') >= ReadProgress(prog_log)
       /\ ncrash' # ncrash =>
            /\ current_offset_' >= sync_offset_'
            /\ ~aborted']_vars

=============================================================================
